---- MODULE Spec2Model ----
(***************************************************************************)
(* A model of the three 3d-vector classes of the repository:               *)
(*   vector3_reg   (Vector3_reg.h)   plain fields x, y, z                  *)
(*   vector3f_simd (Vector3f_simd.h) one __m128 register, 4 float lanes    *)
(*   vector3d_simd (Vector3d_simd.h) one __m256d register, 4 double lanes  *)
(*                                                                         *)
(* Floating-point values are modelled as signed extended rationals         *)
(* [s, n, d]: sign s, magnitude n/d in lowest terms, with d = 0 for the    *)
(* special values (n = 1: infinity, n = 0: NaN) and n = 0, d = 1 for the   *)
(* signed zeros.  The arithmetic follows IEEE-754 on these values; the     *)
(* rounding of results that a float or a double cannot hold is not         *)
(* modelled, so the inputs are kept to values whose results are exact.     *)
(***************************************************************************)
EXTENDS Integers, Sequences, FiniteSets, TLC

VARIABLES backend, v, o, ret, cerr, chain

vars == <<backend, v, o, ret, cerr, chain>>

(***************************************************************************)
(* Bounds of the model.                                                    *)
(***************************************************************************)
\* the component and scalar values of OpsSpec are 0..MaxVal
MaxVal == 2
\* the values handed to the calls of Spec, and the finite values a lane of
\* v may hold there, are 0..MaxLane
MaxLane == 1

(***************************************************************************)
(* IEEE-754 values and arithmetic.                                         *)
(***************************************************************************)
RECURSIVE GCD(_, _)
GCD(a, b) == IF b = 0 THEN a ELSE GCD(b, a % b)

NaN == [s |-> 1, n |-> 0, d |-> 0]

\* the value s * n / d in lowest terms
Norm(s, n, d) ==
    IF d = 0 THEN IF n = 0 THEN NaN ELSE [s |-> s, n |-> 1, d |-> 0]
    ELSE IF n = 0 THEN [s |-> s, n |-> 0, d |-> 1]
    ELSE LET g == GCD(n, d) IN [s |-> s, n |-> n \div g, d |-> d \div g]

\* the value of an integer literal
Num(i) == IF i < 0 THEN Norm(-1, -i, 1) ELSE Norm(1, i, 1)

Zero == Num(0)
One  == Num(1)
PInf == [s |-> 1, n |-> 1, d |-> 0]

IsNaN(a)    == a.n = 0 /\ a.d = 0
IsInf(a)    == a.n # 0 /\ a.d = 0
IsZero(a)   == a.n = 0 /\ a.d # 0
IsFinite(a) == a.d # 0

\* operator== of the element type: NaN differs from everything, -0 == +0
FEq(a, b) == /\ ~IsNaN(a) /\ ~IsNaN(b)
             /\ \/ IsZero(a) /\ IsZero(b)
                \/ a = b

\* the same value up to the sign of zero, NaN taken to be the same as NaN
Same(a, b) == (IsNaN(a) /\ IsNaN(b)) \/ FEq(a, b)

FNeg(a) == IF IsNaN(a) THEN NaN ELSE [a EXCEPT !.s = -a.s]

FMul(a, b) ==
    IF IsNaN(a) \/ IsNaN(b) THEN NaN
    ELSE Norm(a.s * b.s, a.n * b.n, a.d * b.d)

FDiv(a, b) ==
    IF IsNaN(a) \/ IsNaN(b) THEN NaN
    ELSE Norm(a.s * b.s, a.n * b.d, a.d * b.n)

FAdd(a, b) ==
    IF IsNaN(a) \/ IsNaN(b) THEN NaN
    ELSE IF IsInf(a) /\ IsInf(b) THEN (IF a.s = b.s THEN a ELSE NaN)
    ELSE IF IsInf(a) THEN a
    ELSE IF IsInf(b) THEN b
    ELSE LET num == a.s * a.n * b.d + b.s * b.n * a.d
             den == a.d * b.d
         IN  IF num = 0
             THEN [s |-> IF a.s = -1 /\ b.s = -1 THEN -1 ELSE 1, n |-> 0, d |-> 1]
             ELSE IF num < 0 THEN Norm(-1, -num, den) ELSE Norm(1, num, den)

FSub(a, b) == FAdd(a, FNeg(b))

IsSquare(k) == \E r \in 0..k : r * r = k
Root(k)     == CHOOSE r \in 0..k : r * r = k

\* whether sqrt(a) is a value of the model: a special value, a zero, a
\* negative number, or a rational square
HasRoot(a) == \/ ~IsFinite(a)
              \/ IsZero(a)
              \/ a.s = -1
              \/ IsSquare(a.n) /\ IsSquare(a.d)

\* sqrt of the element type, defined where HasRoot
FSqrt(a) ==
    IF IsNaN(a) THEN NaN
    ELSE IF IsZero(a) THEN a
    ELSE IF a.s = -1 THEN NaN
    ELSE IF IsInf(a) THEN a
    ELSE Norm(1, Root(a.n), Root(a.d))

(***************************************************************************)
(* A vector object: the lanes of its storage (x, y, z for vector3_reg;     *)
(* x, y, z and the padding lane for the register-backed classes, whose     *)
(* union makes x, y, z lanes 1..3 of mmvalue) and the comma-initializer    *)
(* counter.                                                                *)
(***************************************************************************)
\* the width of been_inserted (uint8_t)
UINT8_BITS == 8

Obj(lanes, flag) == [mm |-> lanes, been_inserted |-> flag]

X(a) == a.mm[1]
Y(a) == a.mm[2]
Z(a) == a.mm[3]
XYZ(a) == <<a.mm[1], a.mm[2], a.mm[3]>>

\* the operators of the element type, by their C++ spelling
FOp(op, a, b) ==
    CASE op = "+" -> FAdd(a, b)
      [] op = "-" -> FSub(a, b)
      [] op = "*" -> FMul(a, b)
      [] op = "/" -> FDiv(a, b)

\* x = value, y = value or z = value through the union
SetLane(a, i, value) == [a EXCEPT !.mm[i] = value]

\* ++been_inserted on a uint8_t
Incr(a) == [a EXCEPT !.been_inserted = (a.been_inserted + 1) % (2 ^ UINT8_BITS)]

BadUse  == "Error! Bad use of comma initializer."
TooMany == "Error! Too many arguments have been passed to comma initializer"

(***************************************************************************)
(* vector3_reg                                                             *)
(***************************************************************************)
vector3_reg_default == Obj(<<Zero, Zero, Zero>>, 0)

vector3_reg_ctor(x, y, z) == Obj(<<x, y, z>>, 0)

vector3_reg_copy(other) == Obj(<<X(other), Y(other), Z(other)>>, 0)

\* operator+, operator-, operator*, operator/ (const vector3_reg &)
vector3_reg_binary(op, a, other) ==
    vector3_reg_ctor(FOp(op, X(a), X(other)),
                     FOp(op, Y(a), Y(other)),
                     FOp(op, Z(a), Z(other)))

\* operator+=, -=, *=, /= (const vector3_reg &)
vector3_reg_binary_assign(op, a, other) ==
    [a EXCEPT !.mm = <<FOp(op, X(a), X(other)),
                       FOp(op, Y(a), Y(other)),
                       FOp(op, Z(a), Z(other))>>]

\* operator+, operator-, operator*, operator/ (elt_type)
vector3_reg_scalar(op, a, value) ==
    vector3_reg_ctor(FOp(op, X(a), value), FOp(op, Y(a), value), FOp(op, Z(a), value))

\* operator+=, -=, *=, /= (elt_type)
vector3_reg_scalar_assign(op, a, value) ==
    [a EXCEPT !.mm = <<FOp(op, X(a), value), FOp(op, Y(a), value), FOp(op, Z(a), value)>>]

\* operator= (elt_type)
vector3_reg_assign_value(a, value) == [a EXCEPT !.mm = <<value, value, value>>]

\* operator= (const vector3_reg &)
vector3_reg_assign(a, other) == [a EXCEPT !.mm = <<X(other), Y(other), Z(other)>>]

vector3_reg_set(a, x, y, z) == [a EXCEPT !.mm = <<x, y, z>>]

vector3_reg_cross(a, other) ==
    vector3_reg_ctor(FSub(FMul(Y(a), Z(other)), FMul(Z(a), Y(other))),
                     FSub(FMul(Z(a), X(other)), FMul(X(a), Z(other))),
                     FSub(FMul(X(a), Y(other)), FMul(Y(a), X(other))))

vector3_reg_dot(a, other) ==
    FAdd(FAdd(FMul(X(a), X(other)), FMul(Y(a), Y(other))), FMul(Z(a), Z(other)))

\* the argument of sqrt in length()
vector3_reg_sumsq(a) ==
    FAdd(FAdd(FMul(X(a), X(a)), FMul(Y(a), Y(a))), FMul(Z(a), Z(a)))

vector3_reg_length(a) == FSqrt(vector3_reg_sumsq(a))

vector3_reg_rlength(a) == FDiv(One, vector3_reg_length(a))

vector3_reg_normalize(a) ==
    LET t   == vector3_reg_ctor(X(a), Y(a), Z(a))
        abs == vector3_reg_length(a)
    IN  [t EXCEPT !.mm = <<FDiv(X(t), abs), FDiv(Y(t), abs), FDiv(Z(t), abs)>>]

\* operator<< (std::ostream &, v): the tokens written, each followed by ' '
vector3_reg_print(a) == <<X(a), Y(a), Z(a)>>

\* operator>> (std::istream &, v) on a stream holding three numbers
vector3_reg_parse(a, x, y, z) == SetLane(SetLane(SetLane(a, 1, x), 2, y), 3, z)

\* a variant of operator<< that arms the counter only when it is 0
vector3_reg_insert_arm_once(a, value) ==
    IF a.been_inserted = 0
    THEN [SetLane(a, 1, value) EXCEPT !.been_inserted = 1]
    ELSE SetLane(a, 1, value)

\* operator<< (const elt_type &)
vector3_reg_insert(a, value) == [SetLane(a, 1, value) EXCEPT !.been_inserted = 1]

\* operator, (const elt_type &): the object afterwards and the lines
\* written to std::cerr
vector3_reg_comma(a, value) ==
    IF a.been_inserted = 0 THEN [self |-> a, err |-> <<BadUse>>]
    ELSE IF a.been_inserted = 1 THEN [self |-> Incr(SetLane(a, 2, value)), err |-> <<>>]
    ELSE IF a.been_inserted = 2 THEN [self |-> Incr(SetLane(a, 3, value)), err |-> <<>>]
    ELSE [self |-> a, err |-> <<TooMany>>]

(***************************************************************************)
(* The register intrinsics the two SIMD classes use, on 4-lane registers   *)
(* <<lane 0, lane 1, lane 2, lane 3>>.                                     *)
(***************************************************************************)
\* _mm_add_ps, _mm_sub_ps, _mm_mul_ps, _mm_div_ps and their _mm256_..._pd forms
mm_op(op, a, b) == [i \in 1..4 |-> FOp(op, a[i], b[i])]

\* _mm_set_ps(e3, e2, e1, e0), _mm256_set_pd(e3, e2, e1, e0)
mm_set(e3, e2, e1, e0) == <<e0, e1, e2, e3>>

\* _mm_set1_ps, _mm256_set1_pd
mm_set1(a) == <<a, a, a, a>>

\* _mm_setzero_ps, _mm256_setzero_pd
mm_setzero == <<Zero, Zero, Zero, Zero>>

\* _MM_SHUFFLE with its arguments read lowest lane first
MM_SHUFFLE_low_first(z, y, x, w) == <<z, y, x, w>>

\* _MM_SHUFFLE(z, y, x, w): the source lane of each destination lane
MM_SHUFFLE(z, y, x, w) == <<w, x, y, z>>

\* _mm_shuffle_ps(a, a, imm), _mm256_permute4x64_pd(a, imm)
mm_shuffle(a, imm) == [i \in 1..4 |-> a[imm[i] + 1]]

\* bit k of an immediate
Bit(imm, k) == (imm \div (2 ^ k)) % 2

\* _mm_dp_ps(a, b, imm): the products of the lanes selected by bits 4..7,
\* summed pairwise, stored to the lanes selected by bits 0..3
mm_dp_ps(a, b, imm) ==
    LET t == [i \in 1..4 |-> IF Bit(imm, i + 3) = 1 THEN FMul(a[i], b[i]) ELSE Zero]
        sum == FAdd(FAdd(t[1], t[2]), FAdd(t[3], t[4]))
    IN  [i \in 1..4 |-> IF Bit(imm, i - 1) = 1 THEN sum ELSE Zero]

\* _mm256_hadd_pd(a, b)
mm256_hadd_pd(a, b) ==
    <<FAdd(a[1], a[2]), FAdd(b[1], b[2]), FAdd(a[3], a[4]), FAdd(b[3], b[4])>>

\* _mm_add_pd(_mm256_extractf128_pd(r, 1), _mm256_castpd256_pd128(r))
mm_add_halves(r) == <<FAdd(r[3], r[1]), FAdd(r[4], r[2])>>

\* the immediates 0x71 and 0x7F of _mm_dp_ps
DP_XYZ_TO_LANE0 == 113
DP_XYZ_TO_ALL   == 127

(***************************************************************************)
(* vector3f_simd                                                           *)
(***************************************************************************)
vector3f_simd_default == Obj(mm_setzero, 0)

vector3f_simd_ctor(x, y, z) == Obj(mm_set(Zero, z, y, x), 0)

\* vector3f_simd(__m128 other)
vector3f_simd_raw(other) == Obj(other, 0)

\* the implicitly declared copy constructor: memberwise
vector3f_simd_copy(other) == Obj(other.mm, other.been_inserted)

\* the second argument of _mm_div_ps in operator/ and operator/=
\* (const vector3f_simd &): other.mmvalue as it is
vector3f_simd_divisor(other) == other.mm

\* operator+, operator-, operator*, operator/ (const vector3f_simd &)
vector3f_simd_binary(op, a, other) ==
    IF op = "/"
    THEN vector3f_simd_raw(mm_op("/", a.mm, vector3f_simd_divisor(other)))
    ELSE vector3f_simd_raw(mm_op(op, a.mm, other.mm))

\* the compound assignments with the operands of the intrinsic exchanged
vector3f_simd_binary_assign_reversed(op, a, other) ==
    [a EXCEPT !.mm = mm_op(op, other.mm, a.mm)]

\* operator+=, -=, *=, /= (const vector3f_simd &)
vector3f_simd_binary_assign(op, a, other) ==
    IF op = "/"
    THEN [a EXCEPT !.mm = mm_op("/", a.mm, vector3f_simd_divisor(other))]
    ELSE [a EXCEPT !.mm = mm_op(op, a.mm, other.mm)]

\* the broadcast of a scalar operand: _mm_set1_ps(value) for every operator
vector3f_simd_broadcast(op, value) == mm_set1(value)

\* operator+, operator-, operator*, operator/ (elt_type)
vector3f_simd_scalar(op, a, value) ==
    vector3f_simd_raw(mm_op(op, a.mm, vector3f_simd_broadcast(op, value)))

\* operator+=, -=, *=, /= (elt_type)
vector3f_simd_scalar_assign(op, a, value) ==
    [a EXCEPT !.mm = mm_op(op, a.mm, vector3f_simd_broadcast(op, value))]

\* operator= (elt_type)
vector3f_simd_assign_value(a, value) == [a EXCEPT !.mm = mm_set(Zero, value, value, value)]

\* operator= (const vector3f_simd &)
vector3f_simd_assign(a, other) == [a EXCEPT !.mm = other.mm]

vector3f_simd_set(a, x, y, z) == [a EXCEPT !.mm = mm_set(Zero, z, y, x)]

vector3f_simd_cross(a, other) ==
    vector3f_simd_raw(
        mm_op("-",
              mm_op("*", mm_shuffle(a.mm, MM_SHUFFLE(3, 0, 2, 1)),
                         mm_shuffle(other.mm, MM_SHUFFLE(3, 1, 0, 2))),
              mm_op("*", mm_shuffle(a.mm, MM_SHUFFLE(3, 1, 0, 2)),
                         mm_shuffle(other.mm, MM_SHUFFLE(3, 0, 2, 1)))))

vector3f_simd_dot(a, other) == mm_dp_ps(a.mm, other.mm, DP_XYZ_TO_LANE0)[1]

\* the argument of the square roots in length() and rlength()
vector3f_simd_sumsq(a) == mm_dp_ps(a.mm, a.mm, DP_XYZ_TO_LANE0)[1]

\* _mm_sqrt_ss
vector3f_simd_length(a) == FSqrt(vector3f_simd_sumsq(a))

\* _mm_rsqrt_ss, taken without its approximation error
vector3f_simd_rlength(a) == FDiv(One, FSqrt(vector3f_simd_sumsq(a)))

\* _mm_rsqrt_ps of the dot product broadcast to the four lanes
vector3f_simd_normalize(a) ==
    LET dp == mm_dp_ps(a.mm, a.mm, DP_XYZ_TO_ALL)
        r  == [i \in 1..4 |-> FDiv(One, FSqrt(dp[i]))]
    IN  vector3f_simd_raw(mm_op("*", a.mm, r))

vector3f_simd_print(a) == <<X(a), Y(a), Z(a)>>

vector3f_simd_parse(a, x, y, z) == SetLane(SetLane(SetLane(a, 1, x), 2, y), 3, z)

\* a variant of operator<< that sets x and leaves the counter alone
vector3f_simd_insert_keeps_count(a, value) == SetLane(a, 1, value)

vector3f_simd_insert(a, value) == [SetLane(a, 1, value) EXCEPT !.been_inserted = 1]

\* a variant of operator, without the early return of the unarmed case
vector3f_simd_comma_no_return(a, value) ==
    IF a.been_inserted <= 1
    THEN [self |-> Incr(SetLane(a, 2, value)),
          err |-> IF a.been_inserted = 0 THEN <<BadUse>> ELSE <<>>]
    ELSE IF a.been_inserted = 2 THEN [self |-> Incr(SetLane(a, 3, value)), err |-> <<>>]
    ELSE [self |-> a, err |-> <<TooMany>>]

vector3f_simd_comma(a, value) ==
    IF a.been_inserted = 0 THEN [self |-> a, err |-> <<BadUse>>]
    ELSE IF a.been_inserted = 1 THEN [self |-> Incr(SetLane(a, 2, value)), err |-> <<>>]
    ELSE IF a.been_inserted = 2 THEN [self |-> Incr(SetLane(a, 3, value)), err |-> <<>>]
    ELSE [self |-> a, err |-> <<TooMany>>]

(***************************************************************************)
(* vector3d_simd                                                           *)
(***************************************************************************)
vector3d_simd_default == Obj(mm_setzero, 0)

vector3d_simd_ctor(x, y, z) == Obj(mm_set(Zero, z, y, x), 0)

\* vector3d_simd(__m256d other)
vector3d_simd_raw(other) == Obj(other, 0)

\* the implicitly declared copy constructor: memberwise
vector3d_simd_copy(other) == Obj(other.mm, other.been_inserted)

\* a variant of the divisor that overwrites lane 2 (z) instead of lane 3
vector3d_simd_divisor_lane2(other) == [other.mm EXCEPT ![3] = One]

\* __m256d r = other.mmvalue; r[3] = 1.0;
vector3d_simd_divisor(other) == [other.mm EXCEPT ![4] = One]

\* operator+, operator-, operator*, operator/ (const vector3d_simd &)
vector3d_simd_binary(op, a, other) ==
    IF op = "/"
    THEN vector3d_simd_raw(mm_op("/", a.mm, vector3d_simd_divisor(other)))
    ELSE vector3d_simd_raw(mm_op(op, a.mm, other.mm))

\* operator+=, -=, *=, /= (const vector3d_simd &)
vector3d_simd_binary_assign(op, a, other) ==
    IF op = "/"
    THEN [a EXCEPT !.mm = mm_op("/", a.mm, vector3d_simd_divisor(other))]
    ELSE [a EXCEPT !.mm = mm_op(op, a.mm, other.mm)]

\* the broadcast with the arguments of _mm256_set_pd in lane order, which
\* puts the neutral element in lane x
vector3d_simd_broadcast_lane_order(op, value) ==
    IF op = "/" THEN mm_set(value, value, value, One)
    ELSE mm_set(value, value, value, Zero)

\* the broadcast of a scalar operand: _mm256_set_pd(0.0, value, value, value),
\* and _mm256_set_pd(1.0, value, value, value) for a division
vector3d_simd_broadcast(op, value) ==
    IF op = "/" THEN mm_set(One, value, value, value)
    ELSE mm_set(Zero, value, value, value)

\* operator+, operator-, operator*, operator/ (elt_type)
vector3d_simd_scalar(op, a, value) ==
    vector3d_simd_raw(mm_op(op, a.mm, vector3d_simd_broadcast(op, value)))

\* operator+=, -=, *=, /= (elt_type)
vector3d_simd_scalar_assign(op, a, value) ==
    [a EXCEPT !.mm = mm_op(op, a.mm, vector3d_simd_broadcast(op, value))]

\* a variant of operator=(elt_type) that broadcasts value to every lane
vector3d_simd_assign_value_set1(a, value) == [a EXCEPT !.mm = mm_set1(value)]

\* operator= (elt_type)
vector3d_simd_assign_value(a, value) == [a EXCEPT !.mm = mm_set(Zero, value, value, value)]

\* operator= (const vector3d_simd &)
vector3d_simd_assign(a, other) == [a EXCEPT !.mm = other.mm]

\* a variant of set() that also puts the counter back to 0
vector3d_simd_set_resets(a, x, y, z) == vector3d_simd_ctor(x, y, z)

vector3d_simd_set(a, x, y, z) == [a EXCEPT !.mm = mm_set(Zero, z, y, x)]

vector3d_simd_cross(a, other) ==
    vector3d_simd_raw(
        mm_op("-",
              mm_op("*", mm_shuffle(a.mm, MM_SHUFFLE(3, 0, 2, 1)),
                         mm_shuffle(other.mm, MM_SHUFFLE(3, 1, 0, 2))),
              mm_op("*", mm_shuffle(a.mm, MM_SHUFFLE(3, 1, 0, 2)),
                         mm_shuffle(other.mm, MM_SHUFFLE(3, 0, 2, 1)))))

\* dot() returning the low half of the horizontal sum only
vector3d_simd_dot_low_half(a, other) ==
    LET r1 == mm_op("*", a.mm, a.mm)
        r2 == mm256_hadd_pd(r1, r1)
    IN  r2[1]

\* dot(other): r1 is the product of mmvalue with itself; other is not read
vector3d_simd_dot(a, other) ==
    LET r1 == mm_op("*", a.mm, a.mm)
        r2 == mm256_hadd_pd(r1, r1)
    IN  mm_add_halves(r2)[1]

\* the argument of _mm_sqrt_pd in length()
vector3d_simd_sumsq(a) ==
    LET r1 == mm_op("*", a.mm, a.mm)
        r2 == mm256_hadd_pd(r1, r1)
    IN  mm_add_halves(r2)[1]

vector3d_simd_length(a) == FSqrt(vector3d_simd_sumsq(a))

vector3d_simd_rlength(a) == FDiv(One, vector3d_simd_length(a))

vector3d_simd_normalize(a) ==
    LET r == mm_set1(vector3d_simd_rlength(a))
    IN  vector3d_simd_raw(mm_op("*", a.mm, r))

vector3d_simd_print(a) == <<X(a), Y(a), Z(a)>>

vector3d_simd_parse(a, x, y, z) == SetLane(SetLane(SetLane(a, 1, x), 2, y), 3, z)

vector3d_simd_insert(a, value) == [SetLane(a, 1, value) EXCEPT !.been_inserted = 1]

\* a variant of operator, that counts the rejected values too
vector3d_simd_comma_counts_all(a, value) ==
    IF a.been_inserted = 0 THEN [self |-> a, err |-> <<BadUse>>]
    ELSE IF a.been_inserted = 1 THEN [self |-> Incr(SetLane(a, 2, value)), err |-> <<>>]
    ELSE IF a.been_inserted = 2 THEN [self |-> Incr(SetLane(a, 3, value)), err |-> <<>>]
    ELSE [self |-> Incr(a), err |-> <<TooMany>>]

vector3d_simd_comma(a, value) ==
    IF a.been_inserted = 0 THEN [self |-> a, err |-> <<BadUse>>]
    ELSE IF a.been_inserted = 1 THEN [self |-> Incr(SetLane(a, 2, value)), err |-> <<>>]
    ELSE IF a.been_inserted = 2 THEN [self |-> Incr(SetLane(a, 3, value)), err |-> <<>>]
    ELSE [self |-> a, err |-> <<TooMany>>]

(***************************************************************************)
(* The class the build selects.  A program is compiled against exactly one *)
(* of the three classes; backend names it and never changes.               *)
(***************************************************************************)
Backends == {"reg", "f", "d"}
SIMD     == {"f", "d"}

Default(bk) ==
    CASE bk = "reg" -> vector3_reg_default
      [] bk = "f"   -> vector3f_simd_default
      [] bk = "d"   -> vector3d_simd_default

Ctor(bk, x, y, z) ==
    CASE bk = "reg" -> vector3_reg_ctor(x, y, z)
      [] bk = "f"   -> vector3f_simd_ctor(x, y, z)
      [] bk = "d"   -> vector3d_simd_ctor(x, y, z)

Raw(bk, lanes) ==
    CASE bk = "f" -> vector3f_simd_raw(lanes)
      [] bk = "d" -> vector3d_simd_raw(lanes)

Copy(bk, other) ==
    CASE bk = "reg" -> vector3_reg_copy(other)
      [] bk = "f"   -> vector3f_simd_copy(other)
      [] bk = "d"   -> vector3d_simd_copy(other)

Binary(bk, op, a, other) ==
    CASE bk = "reg" -> vector3_reg_binary(op, a, other)
      [] bk = "f"   -> vector3f_simd_binary(op, a, other)
      [] bk = "d"   -> vector3d_simd_binary(op, a, other)

BinaryAssign(bk, op, a, other) ==
    CASE bk = "reg" -> vector3_reg_binary_assign(op, a, other)
      [] bk = "f"   -> vector3f_simd_binary_assign(op, a, other)
      [] bk = "d"   -> vector3d_simd_binary_assign(op, a, other)

Scalar(bk, op, a, value) ==
    CASE bk = "reg" -> vector3_reg_scalar(op, a, value)
      [] bk = "f"   -> vector3f_simd_scalar(op, a, value)
      [] bk = "d"   -> vector3d_simd_scalar(op, a, value)

ScalarAssign(bk, op, a, value) ==
    CASE bk = "reg" -> vector3_reg_scalar_assign(op, a, value)
      [] bk = "f"   -> vector3f_simd_scalar_assign(op, a, value)
      [] bk = "d"   -> vector3d_simd_scalar_assign(op, a, value)

\* the register a SIMD class divides by, for a vector and for a scalar operand
VectorDivisor(bk, other) ==
    CASE bk = "f" -> vector3f_simd_divisor(other)
      [] bk = "d" -> vector3d_simd_divisor(other)

ScalarDivisor(bk, value) ==
    CASE bk = "f" -> vector3f_simd_broadcast("/", value)
      [] bk = "d" -> vector3d_simd_broadcast("/", value)

AssignValue(bk, a, value) ==
    CASE bk = "reg" -> vector3_reg_assign_value(a, value)
      [] bk = "f"   -> vector3f_simd_assign_value(a, value)
      [] bk = "d"   -> vector3d_simd_assign_value(a, value)

Assign(bk, a, other) ==
    CASE bk = "reg" -> vector3_reg_assign(a, other)
      [] bk = "f"   -> vector3f_simd_assign(a, other)
      [] bk = "d"   -> vector3d_simd_assign(a, other)

SetXYZ(bk, a, x, y, z) ==
    CASE bk = "reg" -> vector3_reg_set(a, x, y, z)
      [] bk = "f"   -> vector3f_simd_set(a, x, y, z)
      [] bk = "d"   -> vector3d_simd_set(a, x, y, z)

Cross(bk, a, other) ==
    CASE bk = "reg" -> vector3_reg_cross(a, other)
      [] bk = "f"   -> vector3f_simd_cross(a, other)
      [] bk = "d"   -> vector3d_simd_cross(a, other)

Dot(bk, a, other) ==
    CASE bk = "reg" -> vector3_reg_dot(a, other)
      [] bk = "f"   -> vector3f_simd_dot(a, other)
      [] bk = "d"   -> vector3d_simd_dot(a, other)

SumSq(bk, a) ==
    CASE bk = "reg" -> vector3_reg_sumsq(a)
      [] bk = "f"   -> vector3f_simd_sumsq(a)
      [] bk = "d"   -> vector3d_simd_sumsq(a)

Length(bk, a) ==
    CASE bk = "reg" -> vector3_reg_length(a)
      [] bk = "f"   -> vector3f_simd_length(a)
      [] bk = "d"   -> vector3d_simd_length(a)

RLength(bk, a) ==
    CASE bk = "reg" -> vector3_reg_rlength(a)
      [] bk = "f"   -> vector3f_simd_rlength(a)
      [] bk = "d"   -> vector3d_simd_rlength(a)

Normalize(bk, a) ==
    CASE bk = "reg" -> vector3_reg_normalize(a)
      [] bk = "f"   -> vector3f_simd_normalize(a)
      [] bk = "d"   -> vector3d_simd_normalize(a)

PrintTokens(bk, a) ==
    CASE bk = "reg" -> vector3_reg_print(a)
      [] bk = "f"   -> vector3f_simd_print(a)
      [] bk = "d"   -> vector3d_simd_print(a)

Parse(bk, a, x, y, z) ==
    CASE bk = "reg" -> vector3_reg_parse(a, x, y, z)
      [] bk = "f"   -> vector3f_simd_parse(a, x, y, z)
      [] bk = "d"   -> vector3d_simd_parse(a, x, y, z)

Insert(bk, a, value) ==
    CASE bk = "reg" -> vector3_reg_insert(a, value)
      [] bk = "f"   -> vector3f_simd_insert(a, value)
      [] bk = "d"   -> vector3d_simd_insert(a, value)

Comma(bk, a, value) ==
    CASE bk = "reg" -> vector3_reg_comma(a, value)
      [] bk = "f"   -> vector3f_simd_comma(a, value)
      [] bk = "d"   -> vector3d_simd_comma(a, value)

(***************************************************************************)
(* The program state.                                                      *)
(*   backend   the class the build selected                                *)
(*   v         the object the member functions are called on               *)
(*   o         a second object, passed as the argument `other`             *)
(*   ret       the last call: the function, its arguments and what it      *)
(*             returned (a temporary object, a scalar, the tokens written  *)
(*             to the stream, or the object *this refers to)               *)
(*   cerr      the lines the last call wrote to std::cerr                  *)
(*   chain     the call sequences `v << a, b, c` that share v: how many    *)
(*             of its three operator calls each has made, the triple each  *)
(*             inserts, the order the calls were made in, and every line   *)
(*             written to std::cerr since the first of them                *)
(***************************************************************************)
InVals   == {Num(i) : i \in 0..MaxVal}
\* the padding lanes handed to the raw-register constructors: what the other
\* constructors leave there, and a non-zero value
PadVals  == {Zero, One}
ArithOps == {"+", "-", "*", "/"}

NoRet == [fn |-> "none", op |-> "", args |-> <<>>, val |-> <<>>]

\* no call sequence shares v
NoChain == [pc |-> <<>>, triple |-> <<>>, hist |-> <<>>, diag |-> {}]

\* the objects the public constructors build from the input values
CtorObjects(bk) == {Ctor(bk, x, y, z) : x \in InVals, y \in InVals, z \in InVals}

\* the objects the raw-register constructor builds
RawObjects(bk) ==
    {Raw(bk, <<x, y, z, w>>) : x \in InVals, y \in InVals, z \in InVals, w \in PadVals}

\* a call of a member function of v: what it returns, what it leaves in v
\* and what it writes to std::cerr
Call(fn, op, args, val, self, err) ==
    /\ ret' = [fn |-> fn, op |-> op, args |-> args, val |-> val]
    /\ v' = self
    /\ cerr' = err
    /\ UNCHANGED <<backend, o, chain>>

DoBinary(op, other) ==
    Call("binary", op, <<other>>, Binary(backend, op, v, other), v, <<>>)

DoBinaryAssign(op, other) ==
    LET r == BinaryAssign(backend, op, v, other)
    IN  Call("binary_assign", op, <<other>>, r, r, <<>>)

DoScalar(op, value) ==
    Call("scalar", op, <<value>>, Scalar(backend, op, v, value), v, <<>>)

DoScalarAssign(op, value) ==
    LET r == ScalarAssign(backend, op, v, value)
    IN  Call("scalar_assign", op, <<value>>, r, r, <<>>)

DoAssignValue(value) ==
    LET r == AssignValue(backend, v, value)
    IN  Call("assign_value", "=", <<value>>, r, r, <<>>)

DoAssign(other) ==
    LET r == Assign(backend, v, other)
    IN  Call("assign", "=", <<other>>, r, r, <<>>)

DoSet(x, y, z) ==
    Call("set", "", <<x, y, z>>, <<>>, SetXYZ(backend, v, x, y, z), <<>>)

DoCross(other) == Call("cross", "", <<other>>, Cross(backend, v, other), v, <<>>)

DoDot(other) == Call("dot", "", <<other>>, Dot(backend, v, other), v, <<>>)

DoLength ==
    /\ HasRoot(SumSq(backend, v))
    /\ Call("length", "", <<>>, Length(backend, v), v, <<>>)

DoRLength ==
    /\ HasRoot(SumSq(backend, v))
    /\ Call("rlength", "", <<>>, RLength(backend, v), v, <<>>)

\* normalize() scaling *this and returning it
DoNormalize_in_place ==
    /\ HasRoot(SumSq(backend, v))
    /\ LET r == [v EXCEPT !.mm = Normalize(backend, v).mm]
       IN  Call("normalize", "", <<>>, r, r, <<>>)

DoNormalize ==
    /\ HasRoot(SumSq(backend, v))
    /\ Call("normalize", "", <<>>, Normalize(backend, v), v, <<>>)

DoPrint == Call("print", "<<", <<>>, PrintTokens(backend, v), v, <<>>)

DoParse(x, y, z) ==
    LET r == Parse(backend, v, x, y, z)
    IN  Call("parse", ">>", <<x, y, z>>, <<>>, r, <<>>)

DoInsert(value) ==
    LET r == Insert(backend, v, value)
    IN  Call("insert", "<<", <<value>>, r, r, <<>>)

DoComma(value) ==
    LET r == Comma(backend, v, value)
    IN  Call("comma", ",", <<value>>, r.self, r.self, r.err)

\* vector3 t(v): a copy of v
DoCopy == Call("copy", "", <<>>, Copy(backend, v), v, <<>>)

\* vector3 t; vector3 t(x, y, z); vector3 t(register): a new object
DoDefault == Call("default", "", <<>>, Default(backend), v, <<>>)

DoCtor(x, y, z) == Call("ctor", "", <<x, y, z>>, Ctor(backend, x, y, z), v, <<>>)

DoRaw(lanes) ==
    /\ backend \in SIMD
    /\ Call("raw", "", <<lanes>>, Raw(backend, lanes), v, <<>>)

(***************************************************************************)
(* OpsSpec: two objects are constructed from the input values (by the      *)
(* three-value constructor or, in the SIMD classes, by the raw-register    *)
(* constructor), and one member function or constructor is called.         *)
(***************************************************************************)
\* whether an object can only have come from a raw-register constructor
OnlyRaw(bk, a) == bk \in SIMD /\ a \notin CtorObjects(bk)

OpsObjects(bk) == IF bk \in SIMD THEN RawObjects(bk) ELSE CtorObjects(bk)

OpsInit ==
    /\ backend \in Backends
    /\ v \in OpsObjects(backend)
    /\ o \in OpsObjects(backend)
    /\ ret = NoRet
    /\ cerr = <<>>
    /\ chain = NoChain

\* the functions that take `other` are called with o; the others are called
\* in the runs whose o is a default-constructed object
OpsNext ==
    /\ ret = NoRet
    /\ \/ \E op \in ArithOps : DoBinary(op, o)
       \/ \E op \in ArithOps : DoBinaryAssign(op, o)
       \/ DoCross(o)
       \/ DoDot(o)
       \/ /\ o = Default(backend)
          /\ \/ \E op \in ArithOps, value \in InVals : DoScalar(op, value)
             \/ \E op \in ArithOps, value \in InVals : DoScalarAssign(op, value)
             \/ DoLength
             \/ DoRLength
             \/ DoNormalize
             \/ DoPrint
             \/ DoCopy
             \/ DoDefault
             \/ \E x \in InVals, y \in InVals, z \in InVals : DoCtor(x, y, z)
             \/ \E x \in InVals, y \in InVals, z \in InVals, w \in PadVals :
                    DoRaw(<<x, y, z, w>>)

OpsSpec == OpsInit /\ [][OpsNext]_vars

(***************************************************************************)
(* Spec: the life of one object.  v is default-constructed and the public  *)
(* member functions are called on it in any order, with arguments built    *)
(* from the input values 0..MaxLane, v itself, or the temporary the        *)
(* previous call returned.  A call is left out when it would store in v a  *)
(* value outside 0..MaxLane, +Inf and NaN.  The raw-register constructor   *)
(* is not called: every register in v comes from the class itself.         *)
(***************************************************************************)
SeqVals == {Num(i) : i \in 0..MaxLane}

InRange(a) == \/ IsNaN(a)
              \/ a = PInf
              \/ a \in SeqVals

InRangeObj(a) == \A i \in DOMAIN a.mm : InRange(a.mm[i])

\* the calls whose temporary can be assigned to v
TempFns == {"cross", "normalize", "copy"}

\* the objects passed as `other`: v itself and vector3(a, a, a)
Operands == {v} \cup {Ctor(backend, a, a, a) : a \in SeqVals}

Init ==
    /\ backend \in Backends
    /\ v = Default(backend)
    /\ o = Default(backend)
    /\ ret = NoRet
    /\ cerr = <<>>
    /\ chain = NoChain

Next ==
    /\ \/ \E x \in SeqVals, y \in SeqVals, z \in SeqVals : DoSet(x, y, z)
       \/ \E x \in SeqVals, y \in SeqVals, z \in SeqVals : DoParse(x, y, z)
       \/ \E value \in SeqVals : DoInsert(value)
       \/ \E value \in SeqVals : DoComma(value)
       \/ \E value \in SeqVals : DoAssignValue(value)
       \/ ret.fn \in TempFns /\ DoAssign(ret.val)
       \/ \E op \in ArithOps, other \in Operands : DoBinaryAssign(op, other)
       \/ \E op \in ArithOps, value \in SeqVals : DoScalarAssign(op, value)
       \/ \E other \in Operands : DoCross(other)
       \/ \E other \in Operands : DoDot(other)
       \/ DoLength
       \/ DoRLength
       \/ DoNormalize
       \/ DoPrint
       \/ DoCopy
    /\ InRangeObj(v')

Spec == Init /\ [][Next]_vars

(***************************************************************************)
(* ChainSpec: two call sequences, each `v << a, b, c` with its own triple, *)
(* share one default-constructed v.  A step is one operator call of one    *)
(* sequence, so that every order of the six calls that keeps each          *)
(* sequence's own order is a behaviour; the callers that serialize their   *)
(* access make the orders in which one sequence ends before the other      *)
(* begins.                                                                 *)
(***************************************************************************)
Seqs == {1, 2}

Triples == {<<x, y, z>> : x \in SeqVals, y \in SeqVals, z \in SeqVals}

\* the call of sequence p that is due: updates v, ret, cerr as the call
\* does, and the record of the sequences
ChainCall(p, fn, op, value, self, err) ==
    /\ ret' = [fn |-> fn, op |-> op, args |-> <<value>>, val |-> self]
    /\ v' = self
    /\ cerr' = err
    /\ chain' = [chain EXCEPT !.pc[p] = @ + 1,
                              !.hist = Append(@, p),
                              !.diag = @ \cup {err[i] : i \in DOMAIN err}]
    /\ UNCHANGED <<backend, o>>

\* v << a, made by sequence p
ChainInsert(p) ==
    /\ chain.pc[p] = 0
    /\ LET value == chain.triple[p][1]
       IN  ChainCall(p, "insert", "<<", value, Insert(backend, v, value), <<>>)

\* (v, b) and (v, c), made by sequence p
ChainComma(p) ==
    /\ chain.pc[p] \in 1..(Len(chain.triple[p]) - 1)
    /\ LET value == chain.triple[p][chain.pc[p] + 1]
           r     == Comma(backend, v, value)
       IN  ChainCall(p, "comma", ",", value, r.self, r.err)

ChainInit ==
    /\ backend \in Backends
    /\ v = Default(backend)
    /\ o = Default(backend)
    /\ ret = NoRet
    /\ cerr = <<>>
    /\ \E t1 \in Triples, t2 \in Triples :
           chain = [pc |-> <<0, 0>>, triple |-> <<t1, t2>>, hist |-> <<>>, diag |-> {}]

ChainNext ==
    \/ \E p \in Seqs : ChainInsert(p)
    \/ \E p \in Seqs : ChainComma(p)

ChainSpec == ChainInit /\ [][ChainNext]_vars

(***************************************************************************)
(* Properties.                                                             *)
(***************************************************************************)
\* x*o.x + y*o.y + z*o.z, written out on the components
SumOfProducts(a, b) ==
    FAdd(FAdd(FMul(X(a), X(b)), FMul(Y(a), Y(b))), FMul(Z(a), Z(b)))

\* a register-backed object with its padding lane replaced by w
WithPad(a, w) == [a EXCEPT !.mm[4] = w]

\* the x, y, z of two objects are the same values
SameXYZ(a, b) == \A i \in 1..3 : Same(a.mm[i], b.mm[i])

\* C1: in every backend, v.dot(o) returns v.x*o.x + v.y*o.y + v.z*o.z.
\* Stated on the objects the public constructors build.
C1_DotIsSumOfProducts ==
    (ret.fn = "dot" /\ ~OnlyRaw(backend, v) /\ ~OnlyRaw(backend, ret.args[1])) =>
        Same(ret.val, SumOfProducts(v, ret.args[1]))

\* C2: in every backend, a.dot(b) == b.dot(a).
\* Stated on the objects the public constructors build.
C2_DotCommutes ==
    (ret.fn = "dot" /\ ~OnlyRaw(backend, v) /\ ~OnlyRaw(backend, ret.args[1])) =>
        Same(ret.val, Dot(backend, ret.args[1], v))

\* C6: in the wide-lane backend the padding lane contributes nothing to
\* dot() and length(): the result is the one the same x, y, z give with a
\* zero padding lane.
C6_WidePaddingExcluded ==
    backend = "d" =>
        /\ ret.fn = "dot" =>
               Same(ret.val, Dot("d", WithPad(v, Zero), WithPad(ret.args[1], Zero)))
        /\ ret.fn = "length" =>
               /\ HasRoot(SumSq("d", WithPad(v, Zero)))
               /\ Same(ret.val, Length("d", WithPad(v, Zero)))

\* C8: in the narrow-lane backend the register every division form divides
\* by has a non-zero fourth lane (for a vector divisor: whatever its padding
\* lane holds, its x, y, z being non-zero).
C8_NarrowDivisorPadNonZero ==
    (backend = "f" /\ ret.op = "/") =>
        /\ (/\ ret.fn \in {"binary", "binary_assign"}
            /\ \A i \in 1..3 : ~IsZero(ret.args[1].mm[i])) =>
               ~IsZero(VectorDivisor("f", ret.args[1])[4])
        /\ ret.fn \in {"scalar", "scalar_assign"} =>
               ~IsZero(ScalarDivisor("f", ret.args[1])[4])

\* the case of C9: a SIMD division of finite x, y, z by a vector whose
\* x, y, z are finite and non-zero and whose padding lane is zero; v is the
\* dividend before the call and ret' the call
C9_Case ==
    /\ backend \in SIMD
    /\ ret'.fn \in {"binary", "binary_assign"}
    /\ ret'.op = "/"
    /\ \A i \in 1..3 : IsFinite(v.mm[i])
    /\ \A i \in 1..3 : IsFinite(ret'.args[1].mm[i]) /\ ~IsZero(ret'.args[1].mm[i])
    /\ IsZero(ret'.args[1].mm[4])

\* C9: in both SIMD backends such a division (operator/ and operator/=)
\* yields finite x, y, z, equal to the componentwise quotients.
C9_ZeroPadDivisionFinite ==
    [][C9_Case =>
        \A i \in 1..3 :
            /\ IsFinite(ret'.val.mm[i])
            /\ ret'.val.mm[i] = FDiv(v.mm[i], ret'.args[1].mm[i])]_vars

\* C9 happens: (2, 1, 2) /= (1, 2, 2) has left (2, 1/2, 1) in a wide-lane v
C9_Witness ==
    /\ backend = "d"
    /\ ret.fn = "binary_assign"
    /\ ret.op = "/"
    /\ ret.args[1].mm = <<One, Num(2), Num(2), Zero>>
    /\ v.mm = <<Num(2), Norm(1, 1, 2), One, Zero>>

\* the result of the call in ret, made in backend bk on objects built by
\* the three-value constructor from the x, y, z of the operands
OnTriples(bk) ==
    LET a == Ctor(bk, X(v), Y(v), Z(v))
        b == Ctor(bk, X(ret.args[1]), Y(ret.args[1]), Z(ret.args[1]))
    IN  CASE ret.fn = "binary" -> Binary(bk, ret.op, a, b)
          [] ret.fn = "cross"  -> Cross(bk, a, b)
          [] ret.fn = "dot"    -> Dot(bk, a, b)

\* C10: on the same input triples the three backends return equal x, y, z
\* for add, sub, mul, div and cross, and an equal scalar for dot.
C10_BackendsAgree ==
    (/\ ret.fn \in {"binary", "cross", "dot"}
     /\ ~OnlyRaw(backend, v)
     /\ ~OnlyRaw(backend, ret.args[1])) =>
        \A bk \in Backends :
            IF ret.fn = "dot"
            THEN Same(ret.val, OnTriples(bk))
            ELSE SameXYZ(ret.val, OnTriples(bk))

\* C3: in every backend and from any state of v, operator<<(a) sets x and
\* arms the counter, the first operator, after it sets y and the second
\* sets z, each leaving the other components alone and writing nothing to
\* std::cerr: the sequence leaves (x, y, z) == (a, b, c).
C3_ChainSetsXYZ ==
    [][/\ ret'.fn = "insert" =>
              /\ XYZ(v') = <<ret'.args[1], Y(v), Z(v)>>
              /\ v'.been_inserted = 1
              /\ cerr' = <<>>
       /\ (ret'.fn = "comma" /\ v.been_inserted = 1) =>
              /\ XYZ(v') = <<X(v), ret'.args[1], Z(v)>>
              /\ v'.been_inserted = 2
              /\ cerr' = <<>>
       /\ (ret'.fn = "comma" /\ v.been_inserted = 2) =>
              /\ XYZ(v') = <<X(v), Y(v), ret'.args[1]>>
              /\ v'.been_inserted = 3
              /\ cerr' = <<>>]_vars

\* C3 happens: a chain v << 1, 0, 1 has just completed
C3_Witness ==
    /\ ret.fn = "comma"
    /\ ret.args = <<One>>
    /\ cerr = <<>>
    /\ v.been_inserted = 3
    /\ XYZ(v) = <<One, Zero, One>>

\* C4: in every backend, operator, on an object whose counter is 0 writes a
\* diagnostic to std::cerr, leaves the object as it was (x, y, z, the
\* padding lane and the counter) and returns it.
C4_UnarmedCommaRejected ==
    [][(ret'.fn = "comma" /\ v.been_inserted = 0) =>
           /\ v' = v
           /\ cerr' = <<BadUse>>
           /\ ret'.val = v]_vars

\* C4 happens: operator, was just rejected on an unarmed object holding
\* (1, 1, 0)
C4_Witness ==
    /\ ret.fn = "comma"
    /\ ret.args = <<One>>
    /\ cerr = <<BadUse>>
    /\ v.been_inserted = 0
    /\ XYZ(v) = <<One, One, Zero>>

\* C5: in every backend, once two continuations have been accepted every
\* further operator, writes a diagnostic and leaves the object as it was,
\* the counter included, so that it is rejected however often it is called;
\* the counter never leaves 0..3.
C5_ExtraCommaRejected ==
    [][/\ (ret'.fn = "comma" /\ v.been_inserted = 3) =>
              /\ v' = v
              /\ cerr' = <<TooMany>>
       /\ v'.been_inserted \in 0..3]_vars

\* C5 happens: a continuation was just rejected after the chain
\* v << 1, 1, 0 had completed
C5_Witness ==
    /\ ret.fn = "comma"
    /\ ret.args = <<One>>
    /\ cerr = <<TooMany>>
    /\ v.been_inserted = 3
    /\ XYZ(v) = <<One, One, Zero>>

\* the value the call in ret returns when the padding lanes of the object
\* and of its argument hold w
WithPadding(w) ==
    LET a == WithPad(v, w)
    IN  CASE ret.fn = "dot"       -> Dot(backend, a, WithPad(ret.args[1], w))
          [] ret.fn = "cross"     -> Cross(backend, a, WithPad(ret.args[1], w))
          [] ret.fn = "length"    -> Length(backend, a)
          [] ret.fn = "rlength"   -> RLength(backend, a)
          [] ret.fn = "normalize" -> Normalize(backend, a)
          [] ret.fn = "print"     -> PrintTokens(backend, a)
          [] ret.fn = "copy"      -> Copy(backend, a)

\* C7: in both SIMD backends, on objects that no raw-register constructor
\* has touched, what dot, length, rlength and the stream output return, and
\* the x, y, z of the vectors cross, normalize and a copy return, are what
\* the same x, y, z give with zero padding lanes.
C7_PaddingNotObservable ==
    (backend \in SIMD /\ ret.fn \in {"dot", "cross", "length", "rlength",
                                     "normalize", "print", "copy"}) =>
        /\ ret.fn \in {"length", "rlength", "normalize"} =>
               HasRoot(SumSq(backend, WithPad(v, Zero)))
        /\ ret.fn \in {"dot", "length", "rlength"} => Same(ret.val, WithPadding(Zero))
        /\ ret.fn \in {"cross", "normalize", "copy"} => SameXYZ(ret.val, WithPadding(Zero))
        /\ ret.fn = "print" =>
               \A i \in 1..3 : Same(ret.val[i], WithPadding(Zero)[i])

\* y*o.z - z*o.y, z*o.x - x*o.z, x*o.y - y*o.x, written out on the components
CrossFormula(a, b) ==
    << FSub(FMul(Y(a), Z(b)), FMul(Z(a), Y(b))),
       FSub(FMul(Z(a), X(b)), FMul(X(a), Z(b))),
       FSub(FMul(X(a), Y(b)), FMul(Y(a), X(b))) >>

\* C11: in every backend v.cross(o) has x, y, z equal to
\* (v.y*o.z - v.z*o.y, v.z*o.x - v.x*o.z, v.x*o.y - v.y*o.x), whatever the
\* padding lanes hold.
C11_CrossIsFormula ==
    ret.fn = "cross" => XYZ(ret.val) = CrossFormula(v, ret.args[1])

\* C11 happens: (1, 0, 0).cross((0, 1, 0)) has returned (0, 0, 1) in a
\* register-backed class
C11_Witness ==
    /\ backend \in SIMD
    /\ ret.fn = "cross"
    /\ XYZ(v) = <<One, Zero, Zero>>
    /\ XYZ(ret.args[1]) = <<Zero, One, Zero>>
    /\ XYZ(ret.val) = <<Zero, Zero, One>>

\* C12: in every backend every newly constructed object (default,
\* three-value, raw-register, or a copy of any source) has its counter at 0,
\* so that operator, applied to it is rejected with a diagnostic and leaves
\* it unchanged.
C12_NewObjectsInert ==
    ret.fn \in {"default", "ctor", "raw", "copy"} =>
        /\ ret.val.been_inserted = 0
        /\ \A value \in SeqVals :
               Comma(backend, ret.val, value) = [self |-> ret.val, err |-> <<BadUse>>]

\* C13: in every backend and for each of +, -, *, /, the binary form returns
\* a vector whose x, y, z are v[i] OP o[i] and leaves v and o as they were;
\* the assignment form leaves in v the x, y, z the binary form returns, and
\* leaves o as it was.
C13_ComponentwiseArithmetic ==
    [][/\ ret'.fn = "binary" =>
              /\ \A i \in 1..3 :
                     Same(ret'.val.mm[i], FOp(ret'.op, v.mm[i], ret'.args[1].mm[i]))
              /\ v' = v
              /\ o' = o
       /\ ret'.fn = "binary_assign" =>
              /\ SameXYZ(v', Binary(backend, ret'.op, v, ret'.args[1]))
              /\ \A i \in 1..3 :
                     Same(v'.mm[i], FOp(ret'.op, v.mm[i], ret'.args[1].mm[i]))
              /\ o' = o]_vars

\* C13 happens: (2, 1, 0) -= (1, 1, 2) has left (1, 0, -2) in v
C13_Witness ==
    /\ ret.fn = "binary_assign"
    /\ ret.op = "-"
    /\ XYZ(ret.args[1]) = <<One, One, Num(2)>>
    /\ o = ret.args[1]
    /\ XYZ(v) = <<One, Zero, FNeg(Num(2))>>

\* C14: in every backend normalize() returns a new vector and leaves the
\* receiver as it was: x, y, z, the padding lane and the counter.
C14_NormalizeLeavesReceiver ==
    [][ret'.fn = "normalize" =>
           /\ v' = v
           /\ ret'.val = Normalize(backend, v)
           /\ o' = o]_vars

\* C14 happens: normalize() has returned (1, 0, 0) for a v that still
\* holds (2, 0, 0)
C14_Witness ==
    /\ ret.fn = "normalize"
    /\ XYZ(v) = <<Num(2), Zero, Zero>>
    /\ XYZ(ret.val) = <<One, Zero, Zero>>

\* C15: in every backend, for a vector a built by the three-value
\* constructor whose sum of squares has an exact square root, a.dot(a)
\* equals the square of a.length().
C15_SelfDotIsLengthSquared ==
    (/\ ret.fn \in {"dot", "length"}
     /\ ~OnlyRaw(backend, v)
     /\ HasRoot(SumSq(backend, v))) =>
        /\ (ret.fn = "dot" /\ ret.args[1] = v) =>
               Same(ret.val, FMul(Length(backend, v), Length(backend, v)))
        /\ ret.fn = "length" =>
               Same(FMul(ret.val, ret.val), Dot(backend, v, v))

\* C15 happens: a = (1, 2, 2), of length 3, has returned a.dot(a) == 9
C15_Witness ==
    /\ ret.fn = "dot"
    /\ ret.args[1] = v
    /\ XYZ(v) = <<One, Num(2), Num(2)>>
    /\ ~OnlyRaw(backend, v)
    /\ Length(backend, v) = Num(3)
    /\ ret.val = Num(9)

\* the x, y, z the division in ret' divides by: those of the vector
\* argument, or the scalar argument three times
C16_Divisor ==
    IF ret'.fn \in {"binary", "binary_assign"}
    THEN XYZ(ret'.args[1])
    ELSE <<ret'.args[1], ret'.args[1], ret'.args[1]>>

\* the case of C16: a division of finite non-zero x, y, z by a vector or a
\* scalar with a zero among the finite values it divides by
C16_Case ==
    /\ ret'.fn \in {"binary", "binary_assign", "scalar", "scalar_assign"}
    /\ ret'.op = "/"
    /\ \A i \in 1..3 : IsFinite(v.mm[i]) /\ ~IsZero(v.mm[i])
    /\ \A i \in 1..3 : IsFinite(C16_Divisor[i])
    /\ \E i \in 1..3 : IsZero(C16_Divisor[i])

\* C16: in every backend such a division yields a non-finite value in
\* exactly the components whose divisor is zero and the finite quotient in
\* the others.
C16_ZeroDivisionShows ==
    [][C16_Case =>
        \A i \in 1..3 :
            IF IsZero(C16_Divisor[i])
            THEN ~IsFinite(ret'.val.mm[i])
            ELSE /\ IsFinite(ret'.val.mm[i])
                 /\ ret'.val.mm[i] = FDiv(v.mm[i], C16_Divisor[i])]_vars

\* C16 happens: (1, 2, 1) / (0, 1, 2) has returned (Inf, 2, 1/2) in the
\* wide-lane class
C16_Witness ==
    /\ backend = "d"
    /\ ret.fn = "binary"
    /\ ret.op = "/"
    /\ XYZ(v) = <<One, Num(2), One>>
    /\ XYZ(ret.args[1]) = <<Zero, One, Num(2)>>
    /\ XYZ(ret.val) = <<PInf, Num(2), Norm(1, 1, 2)>>

\* both sequences have made all their calls
ChainsDone == chain.triple # <<>> /\ \A p \in Seqs : chain.pc[p] = Len(chain.triple[p])

\* the calls were serialized: the sequence that made the first call made
\* all of its calls before the other made any
Serialized ==
    \A i \in 1..(Len(chain.hist) - 1) :
        chain.hist[i] # chain.hist[1] => chain.hist[i + 1] # chain.hist[1]

\* C17: when the two sequences run one after the other, v ends equal to the
\* triple of the later one and nothing is written to std::cerr; when their
\* calls interleave, the run ends with the 'too many arguments' diagnostic
\* written, and (the witness) with x, y, z equal to neither triple.
C17_ChainNeedsSerializing ==
    ChainsDone =>
        IF Serialized
        THEN /\ XYZ(v) = chain.triple[chain.hist[Len(chain.hist)]]
             /\ chain.diag = {}
        ELSE TooMany \in chain.diag

\* C17 happens: the calls of (v << 0, 0, 0) and (v << 1, 1, 1) interleaved
\* and left (1, 0, 1) in v and a diagnostic on std::cerr
C17_Witness ==
    /\ ChainsDone
    /\ ~Serialized
    /\ chain.triple = <<(<<Zero, Zero, Zero>>), (<<One, One, One>>)>>
    /\ XYZ(v) = <<One, Zero, One>>
    /\ XYZ(v) \notin {chain.triple[1], chain.triple[2]}
    /\ TooMany \in chain.diag

\* C18: the counter is changed only by operator<< (to 1) and by an accepted
\* operator, (1 to 2, 2 to 3); set(), both operator=, the compound
\* assignments, operator>> and the const functions leave it as it was, and
\* it stays in 0..3.  So operator, right after set() on an armed object is
\* accepted and writes y without a diagnostic, and operator, after a
\* completed chain is reported as 'too many arguments'.
C18_CounterFrame ==
    [][/\ ret'.fn = "insert" => v'.been_inserted = 1
       /\ ret'.fn = "comma" =>
              v'.been_inserted = IF v.been_inserted \in {1, 2}
                                 THEN v.been_inserted + 1
                                 ELSE v.been_inserted
       /\ ret'.fn \notin {"insert", "comma"} => v'.been_inserted = v.been_inserted
       /\ v'.been_inserted \in 0..3
       /\ (ret.fn = "set" /\ v.been_inserted = 1 /\ ret'.fn = "comma") =>
              /\ Y(v') = ret'.args[1]
              /\ cerr' = <<>>
       /\ (ret'.fn = "comma" /\ v.been_inserted = 3) => cerr' = <<TooMany>>]_vars

\* C18 happens: set(0, 1, 1) was just called on an armed object, whose
\* counter is still 1
C18_Witness ==
    /\ ret.fn = "set"
    /\ ret.args = <<Zero, One, One>>
    /\ XYZ(v) = <<Zero, One, One>>
    /\ v.been_inserted = 1

\* a register-backed object with finite x, y, z and a zero padding lane
Clean(a) == (\A i \in 1..3 : IsFinite(a.mm[i])) /\ IsZero(a.mm[4])

\* an argument of a call is finite: a scalar, or a vector that is Clean
FiniteArg(x) == IF "mm" \in DOMAIN x THEN Clean(x) ELSE IsFinite(x)

\* what the call in ret' returned is finite: the x, y, z of a vector, a
\* scalar, or nothing
FiniteResult ==
    CASE ret'.fn \in {"dot", "length", "rlength"} -> IsFinite(ret'.val)
      [] ret'.fn \in {"set", "parse"} -> TRUE
      [] ret'.fn = "print" -> \A i \in 1..3 : IsFinite(ret'.val[i])
      [] OTHER -> \A i \in 1..3 : IsFinite(ret'.val.mm[i])

\* the case of C19: a wide-lane call on a Clean v with finite arguments
\* whose result and whose v afterwards have finite x, y, z
C19_Case ==
    /\ backend = "d"
    /\ Clean(v)
    /\ \A i \in DOMAIN ret'.args : FiniteArg(ret'.args[i])
    /\ FiniteResult
    /\ \A i \in 1..3 : IsFinite(v'.mm[i])

\* C19: in the wide-lane backend, a call in which everything is finite
\* leaves the padding lane of v, and of the vector it returns, at 0: from
\* the default constructor on, the padding lane is 0 for as long as no Inf
\* or NaN arises.  On such a v length() is sqrt(x*x + y*y + z*z).
C19_FinitePaddingStaysZero ==
    [][C19_Case =>
           /\ IsZero(v'.mm[4])
           /\ ret'.fn \in {"cross", "normalize", "copy", "binary_assign",
                           "scalar_assign", "assign", "assign_value", "insert",
                           "comma"} => IsZero(ret'.val.mm[4])
           /\ ret'.fn = "length" => ret'.val = FSqrt(SumOfProducts(v, v))]_vars

\* C19 happens: the wide-lane (1, 1, 1) /= (1, 1, 1) has left (1, 1, 1)
\* with a zero padding lane
C19_Witness ==
    /\ backend = "d"
    /\ ret.fn = "binary_assign"
    /\ ret.op = "/"
    /\ ret.args[1].mm = <<One, One, One, Zero>>
    /\ v.mm = <<One, One, One, Zero>>

====
